---- MODULE Spec2Model ----
(***************************************************************************)
(* Model of the Flask API server of the exchange calculator                *)
(* (src/api_server.py).  Each route handler is one atomic action: it takes *)
(* the request and the outcomes of the collaborators it calls (the rate    *)
(* source, the calculators, the static-file reader) as inputs, and leaves  *)
(* the response, the trace of collaborator calls it made and the running   *)
(* count of rate fetches in the state.                                     *)
(*                                                                         *)
(* Numbers: rates are integers in units of 1e-4 (31.16 is 311600), amounts *)
(* are integers.  Text handled character by character (file names) is a    *)
(* sequence of one-character strings.                                      *)
(***************************************************************************)
EXTENDS Integers, Sequences, FiniteSets

VARIABLES req, resp, calls, fetched, fetches, twin

vars == <<req, resp, calls, fetched, fetches, twin>>

(***************************************************************************)
(* Bounds of the model.                                                    *)
(***************************************************************************)
MaxAmount == 2      \* amounts range over -1 .. MaxAmount
MaxDrift == 1       \* market quotes range over fallback .. fallback + MaxDrift
MaxStem == 3        \* characters of a file name before its suffix
MaxFetches == 2     \* rate fetches observed in one run of the server
MaxTick == 2        \* distinct clock readings

(***************************************************************************)
(* Program constants.                                                      *)
(***************************************************************************)
FallbackUsdtThb == 311600
FallbackRubUsdt == 842271
DefaultCustomRubUsdt == 809000
DefaultAmount == 0

(***************************************************************************)
(* JSON values of the request body.  A text field is a string, Missing     *)
(* when the key is absent.  A numeric field is a tagged value: a JSON      *)
(* number, a string spelling a number, another string, null, or absent.    *)
(***************************************************************************)
Missing == "<missing>"

Num(n) == [t |-> "num", v |-> n]
NumStr(n) == [t |-> "numstr", v |-> n]
BadStr == [t |-> "str", v |-> 0]
Null == [t |-> "null", v |-> 0]
Absent == [t |-> "missing", v |-> 0]

\* dict.get(key, default) on a text field and on a numeric field
Get(value, default) == IF value = Missing THEN default ELSE value

GetNum(value, default) == IF value.t = "missing" THEN Num(default) ELSE value

\* Python's float(x): the number, or the exception it raises
float(x) ==
    CASE x.t = "num" -> [ok |-> TRUE, v |-> x.v, err |-> ""]
      [] x.t = "numstr" -> [ok |-> TRUE, v |-> x.v, err |-> ""]
      [] x.t = "str" -> [ok |-> FALSE, v |-> 0, err |-> "ValueError"]
      [] OTHER -> [ok |-> FALSE, v |-> 0, err |-> "TypeError"]

(***************************************************************************)
(* Inputs.                                                                 *)
(***************************************************************************)
Methods == {Missing, "doverka", "broker", "other"}

Scenarios == {Missing, "rub-to-thb", "thb-to-rub", "thb-to-usdt", "usdt-to-thb", "bogus"}

Directions == {Missing, "amount", "target", "bogus"}

Levels == {Missing, "low", "bogus"}

Amounts ==
    {Absent, BadStr, Null, NumStr(1)} \cup {Num(n) : n \in -1 .. MaxAmount}

CustomRates == {Absent, BadStr, Num(FallbackRubUsdt)}

\* request.get_json(): a JSON object with its fields, or something that is
\* not an object (no body, null, a list)
NotAnObject ==
    [isObject |-> FALSE, method |-> Missing, scenario |-> Missing, direction |-> Missing,
     amount |-> Absent, custom_rub_usdt |-> Absent, commission_level |-> Missing]

Objects ==
    [isObject : {TRUE}, method : Methods, scenario : Scenarios, direction : Directions,
     amount : Amounts, custom_rub_usdt : CustomRates, commission_level : Levels]

Bodies == Objects \cup {NotAnObject}

\* ExchangeRateProvider.get_all_rates(): a snapshot, or an exception
Snapshots ==
    [ok : {TRUE}, usdt_thb : FallbackUsdtThb .. FallbackUsdtThb + MaxDrift,
     rub_usdt : FallbackRubUsdt .. FallbackRubUsdt + MaxDrift, msg : {""}]

FetchFailure == [ok |-> FALSE, usdt_thb |-> 0, rub_usdt |-> 0, msg |-> "UpstreamUnavailable"]

FetchOutcomes == Snapshots \cup {FetchFailure}

\* the handler's local variable rates before the fetch
NotFetched == [ok |-> FALSE, usdt_thb |-> 0, rub_usdt |-> 0, msg |-> "<not fetched>"]

Ticks == 1 .. MaxTick

(***************************************************************************)
(* Calls to collaborators, as the handler makes them.                      *)
(***************************************************************************)
\* fn: the callee; a, b: its numeric arguments; level: its text argument;
\* raised: the call ended in an exception
Call(fn, a, b, level, raised) ==
    [fn |-> fn, a |-> a, b |-> b, level |-> level, raised |-> raised]

Fetch(f) == Call("get_all_rates", 0, 0, "", ~f.ok)

FetchCount(cs) == Cardinality({i \in 1 .. Len(cs) : cs[i].fn = "get_all_rates"})

Response(status, body) == [status |-> status, body |-> body]

\* what a handler leaves: its response, the calls it made, and what the rate
\* source gave it (NotFetched when it did not ask)
Outcome(response, cs, f) == [resp |-> response, calls |-> cs, fetched |-> f]

(***************************************************************************)
(* GET /api/rates                                                          *)
(***************************************************************************)
\* the except clause of get_rates: the fallback pair with the message
get_rates_except(msg) ==
    Response(500, [error |-> msg, usdt_thb |-> FallbackUsdtThb, rub_usdt |-> FallbackRubUsdt])

\* get_rates fetching a second time when the first fetch fails
get_rates_run_Retry(f, ts) ==
    IF f.ok
    THEN Outcome(Response(200, [usdt_thb |-> f.usdt_thb, rub_usdt |-> f.rub_usdt,
                                timestamp |-> ts]),
                 <<Fetch(f)>>, f)
    ELSE Outcome(get_rates_except(f.msg), <<Fetch(f), Fetch(f)>>, f)

\* get_rates answering 200 with the fallback pair when the fetch fails
get_rates_run_SilentFallback(f, ts) ==
    IF f.ok
    THEN Outcome(Response(200, [usdt_thb |-> f.usdt_thb, rub_usdt |-> f.rub_usdt,
                                timestamp |-> ts]),
                 <<Fetch(f)>>, f)
    ELSE Outcome(Response(200, [usdt_thb |-> FallbackUsdtThb, rub_usdt |-> FallbackRubUsdt,
                                timestamp |-> ts]),
                 <<Fetch(f)>>, f)

\* the handler on fetch outcome f at clock reading ts
get_rates_run(f, ts) ==
    IF f.ok
    THEN Outcome(Response(200, [usdt_thb |-> f.usdt_thb, rub_usdt |-> f.rub_usdt,
                                timestamp |-> ts]),
                 <<Fetch(f)>>, f)
    ELSE Outcome(get_rates_except(f.msg), <<Fetch(f)>>, f)

(***************************************************************************)
(* POST /api/calculate                                                     *)
(***************************************************************************)
\* calculate's except clause written like get_rates's
calculate_except_WithFallback(msg) ==
    Response(500, [error |-> msg, usdt_thb |-> FallbackUsdtThb, rub_usdt |-> FallbackRubUsdt])

\* the except clause of calculate: the exception's message and nothing else
calculate_except(msg) == Response(500, [error |-> msg])

\* the guard on the amount letting zero through
AmountRejected_NegativeOnly(amount) == amount < 0

\* the guard on the amount
AmountRejected(amount) == amount <= 0

\* ExchangeCalculator(usdt_thb, rub_usdt).<op>(amount): an opaque mapping
\* determined by the two rates, the operation and the amount
ExchangeResult(op, usdt_thb, rub_usdt, amount) ==
    [calculator |-> "ExchangeCalculator", op |-> op, usdt_thb |-> usdt_thb,
     rub_usdt |-> rub_usdt, amount |-> amount]

\* BrokerCalculatorDetailed(usdt_thb, rub_usdt, level).<op>(amount): an opaque
\* mapping determined by the constructor's arguments, the operation and the amount
BrokerResult(op, ctor, amount) ==
    [calculator |-> "BrokerCalculatorDetailed", op |-> op, usdt_thb |-> ctor.a,
     rub_usdt |-> ctor.b, commission_level |-> ctor.level, amount |-> amount]

\* the dispatch with usdt-to-thb as its last branch instead of a refusal
BrokerOperation_NoRefusal(scenario, direction) ==
    IF scenario = "rub-to-thb"
    THEN IF direction = "target" THEN "rub_to_thb_target" ELSE "rub_to_thb_amount"
    ELSE IF scenario = "thb-to-usdt"
    THEN IF direction = "target" THEN "thb_to_usdt_target" ELSE "thb_to_usdt_amount"
    ELSE IF direction = "target" THEN "usdt_to_thb_target" ELSE "usdt_to_thb_amount"

\* the broker operation the scenario and the direction select, "" when the
\* scenario is none of the broker's
BrokerOperation(scenario, direction) ==
    IF scenario = "rub-to-thb"
    THEN IF direction = "target" THEN "rub_to_thb_target" ELSE "rub_to_thb_amount"
    ELSE IF scenario = "thb-to-usdt"
    THEN IF direction = "target" THEN "thb_to_usdt_target" ELSE "thb_to_usdt_amount"
    ELSE IF scenario = "usdt-to-thb"
    THEN IF direction = "target" THEN "usdt_to_thb_target" ELSE "usdt_to_thb_amount"
    ELSE ""

\* the constructor given the snapshot's rub_usdt instead of the request's
BrokerConstruction_MarketRate(rates, custom_rub_usdt, commission_level, brokerOk) ==
    Call("BrokerCalculatorDetailed", rates.usdt_thb, rates.rub_usdt, commission_level,
         ~brokerOk)

\* the constructor call of the broker branch
BrokerConstruction(rates, custom_rub_usdt, commission_level, brokerOk) ==
    Call("BrokerCalculatorDetailed", rates.usdt_thb, custom_rub_usdt, commission_level,
         ~brokerOk)

\* the branch method == 'broker'; brokerOk: the constructor returns
broker_branch(data, amount, rates, brokerOk) ==
    LET custom_rub_usdt == float(GetNum(data.custom_rub_usdt, DefaultCustomRubUsdt))
        commission_level == Get(data.commission_level, "medium")
        scenario == Get(data.scenario, "rub-to-thb")
        direction == Get(data.direction, "amount")
        ctor == BrokerConstruction(rates, custom_rub_usdt.v, commission_level, brokerOk)
        op == BrokerOperation(scenario, direction)
    IN  IF ~custom_rub_usdt.ok
        THEN Outcome(calculate_except(custom_rub_usdt.err), <<Fetch(rates)>>, rates)
        ELSE IF ~brokerOk
        THEN Outcome(calculate_except("BrokerError"), <<Fetch(rates), ctor>>, rates)
        ELSE IF op = ""
        THEN Outcome(Response(400, [error |-> "Invalid scenario for broker"]),
                     <<Fetch(rates), ctor>>, rates)
        ELSE Outcome(Response(200, BrokerResult(op, ctor, amount)),
                     <<Fetch(rates), ctor, Call(op, amount, 0, "", FALSE)>>, rates)

\* the Doverka branch reading custom_rub_usdt as the broker branch does
doverka_branch_ParsesCustom(data, amount, rates) ==
    LET custom_rub_usdt == float(GetNum(data.custom_rub_usdt, DefaultCustomRubUsdt))
        scenario == Get(data.scenario, "rub-to-thb")
        ctor == Call("ExchangeCalculator", rates.usdt_thb, rates.rub_usdt, "", FALSE)
        op == IF scenario = "rub-to-thb" THEN "rub_to_thb" ELSE "thb_to_rub"
    IN  IF ~custom_rub_usdt.ok
        THEN Outcome(calculate_except(custom_rub_usdt.err), <<Fetch(rates)>>, rates)
        ELSE Outcome(Response(200, ExchangeResult(op, rates.usdt_thb, rates.rub_usdt, amount)),
                     <<Fetch(rates), ctor, Call(op, amount, 0, "", FALSE)>>, rates)

\* the else branch (Doverka)
doverka_branch(data, amount, rates) ==
    LET scenario == Get(data.scenario, "rub-to-thb")
        ctor == Call("ExchangeCalculator", rates.usdt_thb, rates.rub_usdt, "", FALSE)
        op == IF scenario = "rub-to-thb" THEN "rub_to_thb" ELSE "thb_to_rub"
    IN  Outcome(Response(200, ExchangeResult(op, rates.usdt_thb, rates.rub_usdt, amount)),
                <<Fetch(rates), ctor, Call(op, amount, 0, "", FALSE)>>, rates)

\* the handler on body data, fetch outcome f and constructor outcome brokerOk
calculate_run(data, f, brokerOk) ==
    IF ~data.isObject
    THEN Outcome(calculate_except("AttributeError"), <<>>, NotFetched)
    ELSE LET method == Get(data.method, "doverka")
             amount == float(GetNum(data.amount, DefaultAmount))
         IN  IF ~amount.ok
             THEN Outcome(calculate_except(amount.err), <<>>, NotFetched)
             ELSE IF AmountRejected(amount.v)
             THEN Outcome(Response(400, [error |-> "Invalid amount"]), <<>>, NotFetched)
             ELSE IF ~f.ok
             THEN Outcome(calculate_except(f.msg), <<Fetch(f)>>, f)
             ELSE IF method = "broker"
             THEN broker_branch(data, amount.v, f, brokerOk)
             ELSE doverka_branch(data, amount.v, f)

(***************************************************************************)
(* GET /<path:filename>                                                    *)
(***************************************************************************)
\* str.startswith and str.endswith
StartsWith(s, prefix) ==
    Len(prefix) <= Len(s) /\ SubSeq(s, 1, Len(prefix)) = prefix

EndsWith(s, suffix) ==
    Len(suffix) <= Len(s) /\ SubSeq(s, Len(s) - Len(suffix) + 1, Len(s)) = suffix

ApiPrefix == <<"a", "p", "i">>

allowed_extensions ==
    { <<".", "c", "s", "s">>, <<".", "j", "s">>, <<".", "p", "n", "g">>,
      <<".", "j", "p", "g">>, <<".", "j", "p", "e", "g">>, <<".", "g", "i", "f">>,
      <<".", "s", "v", "g">>, <<".", "i", "c", "o">> }

EmptyBody == [text |-> ""]

FileBody(name) == [file |-> name]

\* the catch-all handler without the test for the api prefix
static_files_run_NoApiCheck(filename, served) ==
    IF ~(\E ext \in allowed_extensions : EndsWith(filename, ext))
    THEN Outcome(Response(404, EmptyBody), <<>>, NotFetched)
    ELSE IF served
    THEN Outcome(Response(200, FileBody(filename)),
                 <<Call("send_static_file", 0, 0, "", FALSE)>>, NotFetched)
    ELSE Outcome(Response(404, EmptyBody),
                 <<Call("send_static_file", 0, 0, "", TRUE)>>, NotFetched)

SendStaticFile(served) == Call("send_static_file", 0, 0, "", ~served)

\* the handler on a file name; served: send_static_file returns the file
static_files_run(filename, served) ==
    IF StartsWith(filename, ApiPrefix)
    THEN Outcome(Response(404, EmptyBody), <<>>, NotFetched)
    ELSE IF ~(\E ext \in allowed_extensions : EndsWith(filename, ext))
    THEN Outcome(Response(404, EmptyBody), <<>>, NotFetched)
    ELSE IF served
    THEN Outcome(Response(200, FileBody(filename)), <<SendStaticFile(served)>>, NotFetched)
    ELSE Outcome(Response(404, EmptyBody), <<SendStaticFile(served)>>, NotFetched)

\* file names the catch-all route receives: a stem and a suffix
StemChars == {"a", "p", "i", "/"}

Stems == UNION {[1 .. n -> StemChars] : n \in 0 .. MaxStem}

Suffixes ==
    allowed_extensions \cup
    { <<>>, <<".", "e", "x", "e">>, <<".", "j", "s", "x">>, <<"c", "s", "s">>,
      <<".", "C", "S", "S">>, <<".", "c", "s", "s", ".", "b", "a", "k">>, <<".", "p", "y">> }

\* paths the router gives to another rule, and the empty path (the index)
RoutedElsewhere == { <<>>, ApiPrefix }

Filenames == {stem \o suffix : stem \in Stems, suffix \in Suffixes} \ RoutedElsewhere

(***************************************************************************)
(* State.  req: the request being answered, Idle between requests; resp:  *)
(* its response; calls: the calls the handler made to its collaborators,   *)
(* in order; fetched: what the rate source gave the handler, NotFetched    *)
(* when it was not asked; fetches: calls to the rate source since the      *)
(* server started;                                                         *)
(* twin: an earlier request and its response, kept for comparison with the *)
(* current one.  A request is handled in one step from the idle server,    *)
(* and teardown returns the server to idle: nothing of a request outlives  *)
(* it but the count of fetches.                                            *)
(***************************************************************************)
NoFile == <<>>

Request(route, data, filename) == [route |-> route, data |-> data, filename |-> filename]

NoTwin == [set |-> FALSE]

Idle == Request("none", NotAnObject, NoFile)

NoResponse == Response(0, EmptyBody)

Init ==
    /\ req = Idle
    /\ resp = NoResponse
    /\ calls = <<>>
    /\ fetched = NotFetched
    /\ fetches = 0
    /\ twin = NoTwin

\* a handler ran: the request, what it answered and what it called
Handled(request, out) ==
    /\ fetches + FetchCount(out.calls) <= MaxFetches
    /\ req' = request
    /\ resp' = out.resp
    /\ calls' = out.calls
    /\ fetched' = out.fetched
    /\ fetches' = fetches + FetchCount(out.calls)

index ==
    /\ req = Idle
    /\ \E served \in BOOLEAN :
          Handled(Request("index", NotAnObject, NoFile),
                  Outcome(IF served THEN Response(200, FileBody(<<"index.html">>))
                                    ELSE Response(404, [text |-> "Not Found"]),
                          <<SendStaticFile(served)>>, NotFetched))
    /\ twin' = NoTwin

get_rates ==
    /\ req = Idle
    /\ \E f \in FetchOutcomes, ts \in Ticks :
          Handled(Request("rates", NotAnObject, NoFile), get_rates_run(f, ts))
    /\ twin' = NoTwin

calculate ==
    /\ req = Idle
    /\ \E data \in Bodies, f \in FetchOutcomes, brokerOk \in BOOLEAN :
          Handled(Request("calculate", data, NoFile), calculate_run(data, f, brokerOk))
    /\ twin' = NoTwin

health_check ==
    /\ req = Idle
    /\ Handled(Request("health", NotAnObject, NoFile),
               Outcome(Response(200, [status |-> "ok",
                                      message |-> "Exchange Calculator API is running"]),
                       <<>>, NotFetched))
    /\ twin' = NoTwin

api_info ==
    /\ req = Idle
    /\ Handled(Request("api", NotAnObject, NoFile),
               Outcome(Response(200, [name |-> "Exchange Calculator API",
                                      version |-> "1.0.0"]),
                       <<>>, NotFetched))
    /\ twin' = NoTwin

static_files ==
    /\ req = Idle
    /\ \E filename \in Filenames, served \in BOOLEAN :
          Handled(Request("static", NotAnObject, filename),
                  static_files_run(filename, served))
    /\ twin' = NoTwin

\* a request in doverka mode that carries only scenario and amount
PlainDoverka(data) ==
    /\ data.isObject
    /\ data.method # "broker"
    /\ data.direction = Missing
    /\ data.custom_rub_usdt = Absent
    /\ data.commission_level = Missing

\* After a plain doverka request, a second doverka request with the same
\* scenario and amount and any direction, custom_rub_usdt and
\* commission_level is handled while the rate source answers as it did for
\* the first; the first request and its response are kept in twin.
calculate_twin ==
    /\ req.route = "calculate"
    /\ twin = NoTwin
    /\ PlainDoverka(req.data)
    /\ \E data \in Objects, brokerOk \in BOOLEAN :
          /\ data.method # "broker"
          /\ data.scenario = req.data.scenario
          /\ data.amount = req.data.amount
          /\ Handled(Request("calculate", data, NoFile),
                     calculate_run(data, fetched, brokerOk))
    /\ twin' = [set |-> TRUE, data |-> req.data, resp |-> resp, fetched |-> fetched]

\* the response is sent and the request's context is dropped
teardown ==
    /\ req # Idle
    /\ req' = Idle
    /\ resp' = NoResponse
    /\ calls' = <<>>
    /\ fetched' = NotFetched
    /\ twin' = NoTwin
    /\ UNCHANGED fetches

Next ==
    \/ teardown
    \/ index
    \/ get_rates
    \/ calculate
    \/ health_check
    \/ api_info
    \/ static_files

Spec == Init /\ [][Next]_vars

\* the server, with pairs of doverka requests compared
NextTwin ==
    \/ Next
    \/ calculate_twin

SpecTwin == Init /\ [][NextTwin]_vars

(***************************************************************************)
(* Properties.  They speak of the state a handler leaves: the request, the *)
(* response, the calls made and what the rate source gave.                 *)
(***************************************************************************)
\* a numeric field that holds a number, as a JSON number or as its spelling
IsNumber(x) == x.t \in {"num", "numstr"}

CalculateHandled == req.route = "calculate" /\ req.data.isObject

InvalidAmount == Response(400, [error |-> "Invalid amount"])

InvalidScenarioForBroker == Response(400, [error |-> "Invalid scenario for broker"])

\* C1: a POST /api/calculate whose amount is a number <= 0, or is omitted,
\* is answered 400 {error: "Invalid amount"}, whatever the other fields are
\* and whatever the rate source would answer.
C1_NonPositiveAmountRejected ==
    (/\ CalculateHandled
     /\ \/ req.data.amount.t = "missing"
        \/ IsNumber(req.data.amount) /\ req.data.amount.v <= 0)
    => resp = InvalidAmount

\* C1 witness: a broker request with amount 0, an unknown scenario and a
\* malformed custom_rub_usdt has been answered 400
C1_Witness ==
    /\ CalculateHandled
    /\ req.data.amount = Num(0)
    /\ req.data.method = "broker"
    /\ req.data.scenario = "bogus"
    /\ req.data.custom_rub_usdt = BadStr
    /\ resp.status = 400

\* C4: GET /api/rates answers 200 with exactly the fetched usdt_thb and
\* rub_usdt plus a timestamp when the fetch succeeds, and 500 with exactly
\* error and the fallback pair when it fails; no other answer exists.
C4_RatesFetchedOrFallback ==
    req.route = "rates" =>
        /\ fetched \in FetchOutcomes
        /\ fetched.ok =>
              /\ resp.status = 200
              /\ DOMAIN resp.body = {"usdt_thb", "rub_usdt", "timestamp"}
              /\ resp.body.usdt_thb = fetched.usdt_thb
              /\ resp.body.rub_usdt = fetched.rub_usdt
        /\ ~fetched.ok =>
              /\ resp.status = 500
              /\ DOMAIN resp.body = {"error", "usdt_thb", "rub_usdt"}
              /\ resp.body.usdt_thb = 311600
              /\ resp.body.rub_usdt = 842271

\* C4 witness: the fetch failed and GET /api/rates answered 500
C4_Witness ==
    /\ req.route = "rates"
    /\ ~fetched.ok
    /\ resp.status = 500
    /\ resp.body.error = "UpstreamUnavailable"

\* the suffixes the catch-all route may serve, as the interface lists them
C6_Whitelist ==
    { <<".", "c", "s", "s">>, <<".", "j", "s">>, <<".", "p", "n", "g">>,
      <<".", "j", "p", "g">>, <<".", "j", "p", "e", "g">>, <<".", "g", "i", "f">>,
      <<".", "s", "v", "g">>, <<".", "i", "c", "o">> }

C6_Servable(name) ==
    /\ ~(Len(name) >= 3 /\ name[1] = "a" /\ name[2] = "p" /\ name[3] = "i")
    /\ \E ext \in C6_Whitelist :
          /\ Len(ext) <= Len(name)
          /\ \A i \in 1 .. Len(ext) : name[Len(name) - Len(ext) + i] = ext[i]

\* C6: the catch-all route answers 404 with an empty body when the file name
\* starts with "api" or has no whitelisted extension; it serves a file only
\* when the name does not start with "api" and has a whitelisted extension,
\* and answers 404 with an empty body when serving fails.
C6_StaticWhitelist ==
    req.route = "static" =>
        /\ ~C6_Servable(req.filename) => resp = Response(404, EmptyBody) /\ calls = <<>>
        /\ resp.status = 200 => C6_Servable(req.filename) /\ resp.body = [file |-> req.filename]
        /\ (C6_Servable(req.filename) /\ calls[1].raised) => resp = Response(404, EmptyBody)
        /\ (C6_Servable(req.filename) /\ ~calls[1].raised) => resp.status = 200

\* C6 witness: a name with a whitelisted extension that starts with "api"
\* has been refused
C6_Witness ==
    /\ req.route = "static"
    /\ req.filename = <<"a", "p", "i", ".", "j", "s">>
    /\ resp = Response(404, EmptyBody)

\* the scenarios each method knows
BrokerScenarios == {"rub-to-thb", "thb-to-usdt", "usdt-to-thb"}

DoverkaScenarios == {"rub-to-thb", "thb-to-rub"}

BrokerRequest == CalculateHandled /\ req.data.method = "broker"

DoverkaRequest == CalculateHandled /\ req.data.method # "broker"

PositiveAmount == IsNumber(req.data.amount) /\ req.data.amount.v > 0

\* the calculator of the broker branch was built: custom_rub_usdt is omitted
\* or a number, and the constructor returned
BrokerBuilt ==
    /\ req.data.custom_rub_usdt.t = "missing" \/ IsNumber(req.data.custom_rub_usdt)
    /\ Len(calls) >= 2
    /\ calls[2].fn = "BrokerCalculatorDetailed"
    /\ ~calls[2].raised

\* C2 as stated: a broker request whose scenario is none of the broker's is
\* answered 400 {error: "Invalid scenario for broker"}, for every amount,
\* direction, custom_rub_usdt and commission_level and every outcome of the
\* rate fetch and of the calculator's construction.
C2_UnknownBrokerScenarioAlways400 ==
    (BrokerRequest /\ req.data.scenario \notin BrokerScenarios \cup {Missing})
    => resp = InvalidScenarioForBroker

\* C2 amended: a broker request whose scenario is none of the broker's is
\* answered 400 {error: "Invalid scenario for broker"} when its amount is a
\* number > 0, the rate fetch succeeds and the calculator is built; with an
\* amount <= 0 or omitted it is answered 400 {error: "Invalid amount"}, and
\* in every remaining case 500 with the exception's message.
C2_UnknownBrokerScenario ==
    (BrokerRequest /\ req.data.scenario \notin BrokerScenarios \cup {Missing})
    => /\ (PositiveAmount /\ fetched.ok /\ BrokerBuilt) => resp = InvalidScenarioForBroker
       /\ (req.data.amount.t = "missing" \/ (IsNumber(req.data.amount) /\ ~PositiveAmount))
             => resp = InvalidAmount
       /\ (~IsNumber(req.data.amount) /\ req.data.amount.t # "missing")
             => resp.status = 500
       /\ (PositiveAmount /\ ~(fetched.ok /\ BrokerBuilt)) => resp.status = 500
       /\ resp.status # 200

\* C2 witness: a broker request for thb-to-rub with a positive amount, after
\* a successful fetch and construction, has been answered 400
C2_Witness ==
    /\ BrokerRequest
    /\ req.data.scenario = "thb-to-rub"
    /\ PositiveAmount
    /\ fetched.ok
    /\ BrokerBuilt
    /\ resp = InvalidScenarioForBroker

\* C3: a POST /api/calculate whose scenario is not valid for the selected
\* method is answered 400 and gets no calculation result; a doverka request,
\* or one with no method, whose scenario is neither rub-to-thb nor
\* thb-to-rub is one of them.  Stated for the requests nothing else stops:
\* a positive amount, a successful fetch and, in broker mode, a calculator
\* that was built.
C3_InvalidScenarioRejected ==
    (/\ CalculateHandled
     /\ req.data.scenario # Missing
     /\ \/ req.data.method = "broker" /\ req.data.scenario \notin BrokerScenarios
        \/ req.data.method # "broker" /\ req.data.scenario \notin DoverkaScenarios
     /\ PositiveAmount
     /\ fetched.ok
     /\ req.data.method = "broker" => BrokerBuilt)
    => resp.status = 400

\* C5 as stated: whenever the rate fetch fails, the handler that called it,
\* GET /api/rates or POST /api/calculate, answers 500 with the fallback
\* usdt_thb and rub_usdt in the body.
C5_FallbackInEveryHandler ==
    (Len(calls) >= 1 /\ calls[1].fn = "get_all_rates" /\ calls[1].raised)
    => /\ resp.status = 500
       /\ {"usdt_thb", "rub_usdt"} \subseteq DOMAIN resp.body
       /\ resp.body.usdt_thb = 311600
       /\ resp.body.rub_usdt = 842271

\* C5 amended: whenever the rate fetch fails, the handler that called it
\* answers 500 and makes no further call; GET /api/rates puts the fallback
\* usdt_thb and rub_usdt in the body beside error, and POST /api/calculate
\* answers with a body that holds error (the failure's message) alone.
C5_FetchFailureAnswer ==
    (Len(calls) >= 1 /\ calls[1].fn = "get_all_rates" /\ calls[1].raised)
    => /\ resp.status = 500
       /\ Len(calls) = 1
       /\ req.route \in {"rates", "calculate"}
       /\ req.route = "rates" =>
             resp.body = [error |-> fetched.msg, usdt_thb |-> 311600, rub_usdt |-> 842271]
       /\ req.route = "calculate" => resp.body = [error |-> fetched.msg]

\* C5 witness: POST /api/calculate with a positive amount met a failed fetch
C5_Witness ==
    /\ CalculateHandled
    /\ PositiveAmount
    /\ Len(calls) = 1
    /\ calls[1].raised
    /\ resp.status = 500

\* C7: two doverka requests that agree on scenario and amount and see the
\* same answer of the rate source get the same status and the same body,
\* whatever their direction, custom_rub_usdt and commission_level.  The
\* earlier request carries none of the three fields, so any two requests
\* compared with it agree with each other.
C7_DoverkaIgnoresBrokerFields ==
    (/\ twin.set
     /\ DoverkaRequest
     /\ twin.data.method # "broker"
     /\ twin.data.scenario = req.data.scenario
     /\ twin.data.amount = req.data.amount
     /\ twin.fetched = fetched)
    => /\ resp.status = twin.resp.status
       /\ resp.body = twin.resp.body

\* C7 witness: a doverka request with direction target, a malformed
\* custom_rub_usdt and an unknown commission_level got a result, after a
\* request without these fields
C7_Witness ==
    /\ twin.set
    /\ DoverkaRequest
    /\ req.data.direction = "target"
    /\ req.data.custom_rub_usdt = BadStr
    /\ req.data.commission_level = "bogus"
    /\ fetched.ok
    /\ resp.status = 200
    /\ twin.resp.status = 200

\* C8: a request calls the rate source at most once.  GET /api/rates and a
\* POST /api/calculate with a positive amount call it exactly once, also
\* when the call fails and also when an earlier request has fetched; a
\* POST /api/calculate rejected for its amount calls nothing; the other
\* routes do not fetch; and between requests no snapshot is held.
C8_OneFetchPerRequest ==
    [][/\ FetchCount(calls') <= 1
       /\ fetches' = fetches + FetchCount(calls')
       /\ req'.route = "rates" => FetchCount(calls') = 1 /\ fetches' = fetches + 1
       /\ (req'.route = "calculate" /\ req'.data.isObject /\ IsNumber(req'.data.amount)
             /\ req'.data.amount.v > 0)
          => FetchCount(calls') = 1 /\ fetches' = fetches + 1
       /\ (req'.route = "calculate" /\ resp' = InvalidAmount)
          => calls' = <<>> /\ fetches' = fetches
       /\ req'.route \notin {"rates", "calculate"} => fetches' = fetches
       /\ req' = Idle => fetched' = NotFetched /\ calls' = <<>>]_vars

\* C8 witness: a GET /api/rates that fetched once, and failed, after an
\* earlier request had fetched
C8_Witness ==
    /\ req.route = "rates"
    /\ fetches >= 2
    /\ FetchCount(calls) = 1
    /\ ~fetched.ok

\* the operation each scenario and direction name
C10_Named(scenario, direction) ==
    CASE scenario \in {"rub-to-thb", Missing} /\ direction = "target" -> "rub_to_thb_target"
      [] scenario \in {"rub-to-thb", Missing} /\ direction # "target" -> "rub_to_thb_amount"
      [] scenario = "thb-to-usdt" /\ direction = "target" -> "thb_to_usdt_target"
      [] scenario = "thb-to-usdt" /\ direction # "target" -> "thb_to_usdt_amount"
      [] scenario = "usdt-to-thb" /\ direction = "target" -> "usdt_to_thb_target"
      [] scenario = "usdt-to-thb" /\ direction # "target" -> "usdt_to_thb_amount"

C10_BrokerOperations ==
    {"rub_to_thb_target", "rub_to_thb_amount", "thb_to_usdt_target", "thb_to_usdt_amount",
     "usdt_to_thb_target", "usdt_to_thb_amount"}

C10_Invoked == {i \in 1 .. Len(calls) : calls[i].fn \in C10_BrokerOperations}

\* the calls of a broker request served in full: the fetch, the calculator
\* built from the snapshot's usdt_thb, the request's custom_rub_usdt (80.9
\* when omitted) and its commission_level, and the one operation named
C10_Dispatch ==
    /\ Len(calls) = 3
    /\ calls[1].fn = "get_all_rates"
    /\ calls[2].fn = "BrokerCalculatorDetailed"
    /\ calls[2].a = fetched.usdt_thb
    /\ calls[2].b = IF req.data.custom_rub_usdt.t = "missing"
                    THEN 809000 ELSE req.data.custom_rub_usdt.v
    /\ calls[3].fn = C10_Named(req.data.scenario, req.data.direction)
    /\ calls[3].a = req.data.amount.v
    /\ Cardinality(C10_Invoked) = 1

\* C10 as stated: in broker mode with amount > 0 and a successful rate fetch,
\* a request naming one of the three broker scenarios invokes exactly one
\* broker operation, the one its scenario and direction name, on a
\* calculator built from the snapshot's usdt_thb and the request's
\* custom_rub_usdt.  Stated for the requests in which no collaborator the
\* handler calls raises.
C10_ExactlyOneOperation ==
    (/\ BrokerRequest
     /\ PositiveAmount
     /\ fetched.ok
     /\ req.data.scenario \in BrokerScenarios \cup {Missing}
     /\ \A i \in 1 .. Len(calls) : ~calls[i].raised)
    => C10_Dispatch

\* C10 amended: in broker mode with amount > 0, a successful rate fetch and
\* a calculator that was built (custom_rub_usdt omitted or a number, and the
\* constructor returning), a request naming one of the three broker
\* scenarios invokes exactly one broker operation, the one its scenario and
\* direction name (target, or else amount), on a calculator built from the
\* snapshot's usdt_thb and the request's custom_rub_usdt (80.9 when
\* omitted); every other broker request invokes no broker operation, and
\* no request invokes more than one of the six.
C10_OneOperationWhenBuilt ==
    /\ (/\ BrokerRequest
        /\ PositiveAmount
        /\ fetched.ok
        /\ BrokerBuilt
        /\ req.data.scenario \in BrokerScenarios \cup {Missing})
       => C10_Dispatch
    /\ (/\ BrokerRequest
        /\ ~(/\ PositiveAmount
             /\ fetched.ok
             /\ BrokerBuilt
             /\ req.data.scenario \in BrokerScenarios \cup {Missing}))
       => C10_Invoked = {}
    /\ Cardinality(C10_Invoked) <= 1
    /\ C10_Invoked # {} => BrokerRequest

\* C10 witness: usdt-to-thb with an unrecognized direction ran
\* usdt_to_thb_amount on a calculator whose rub_usdt is the default, not the
\* snapshot's
C10_Witness ==
    /\ BrokerRequest
    /\ req.data.scenario = "usdt-to-thb"
    /\ req.data.direction = "bogus"
    /\ req.data.custom_rub_usdt = Absent
    /\ Len(calls) = 3
    /\ calls[3].fn = "usdt_to_thb_amount"
    /\ calls[2].b = 809000
    /\ calls[2].b # fetched.rub_usdt
    /\ resp.status = 200

====
